---- MODULE Spec2Model ----
(***************************************************************************)
(* A state-machine model of netgear-admin.py: main() resolves its          *)
(* configuration with getConfigValue, validates it, builds a NetgearAdmin  *)
(* and calls run(), which drives a selenium browser through the router's   *)
(* pages.  The browser and the router are the environment: every wait,     *)
(* element lookup and page-source observation is a nondeterministic        *)
(* choice among the outcomes the driver can produce.                       *)
(*                                                                         *)
(* Assumptions of the model: config.json exists and holds a JSON object;   *)
(* webdriver calls that the code never guards (browser.get, quit,          *)
(* get_screenshot_as_file, execute_script, click) do not raise.            *)
(***************************************************************************)
EXTENDS Integers, Sequences, FiniteSets, TLC

VARIABLES
    args,          \* argparse namespace: name -> value (main:351)
    verbose,       \* args.verbose
    env,           \* os.environ['QUERY_STRING']: [set, pairs]
    isCgi,         \* 'GATEWAY_INTERFACE' in os.environ
    config,        \* the object stored in config.json: name -> value
    action, router_ip, username, password,   \* main's locals (360-363)
    selfAction,    \* NetgearAdmin.action
    screenshot,    \* NetgearAdmin._screenshot
    screenshotNum, \* NetgearAdmin._screenshot_num
    browser,       \* NetgearAdmin.browser: "none", "open" or "quit"
    pc,            \* position of the single thread of control
    ret,           \* caller to which get / wait_for_page_load return
    x,             \* loop index of get()
    getCalls,      \* browser.get calls issued by the current get()
    failedWaits,   \* WebDriverWait failures in the current get()
    getSleeps,     \* time.sleep(2) calls of the current get()
    count,         \* local count of wait_for_page_load
    sleeps,        \* time.sleep(1) calls of the current wait_for_page_load
    loginResult,   \* what check_login returned: "unknown", "true", "false"
    multiLogin,    \* multi-login warning: "unknown", "no_form", "no_yes", "clicked"
                   \* ('yes' clicked, wait not finished), "loaded" (wait succeeded)
    logoutFound,   \* lookup of 'logout': "unknown", "yes", "no"
    swallowed,     \* exception caught by check_login's first except, or "none"
    requested,     \* pages handed to get(): subset of {"start","home","block"}
    loadedPages,   \* pages for which get_*_page has returned
    clicked,       \* elements clicked so far, in order
    alertAccepted, \* alert.accept() has been called
    radios,        \* values of the 'skeyword' radios of the page block_services ran on
    radioIndex,    \* index in radios of the radio it clicked, 0 if none
    blockResult,   \* block_services: "none", "raised", "false", "waiting", "true"
    quitCount,     \* number of browser.quit() calls
    exc,           \* exception in flight / that ended the process
    handlerRan,    \* the body of run()'s except clause was executed
    pageFail,      \* page-load give-up reached: "none", "get", "wfpl"
    failPng,       \* error_screenshot wrote webdriver_fail.png
    failHtml,      \* error_screenshot wrote webdriver_fail.html
    critical,      \* set of messages logged with logger.critical
    header,        \* the CGI header has been printed
    exitCode       \* process exit status, -1 while running

vars == << args, verbose, env, isCgi, config, action, router_ip, username,
           password, selfAction, screenshot, screenshotNum, browser, pc, ret,
           x, getCalls, failedWaits, getSleeps, count, sleeps, loginResult,
           requested, loadedPages, clicked, alertAccepted, quitCount, exc,
           handlerRan, pageFail, failPng, failHtml, critical, header, exitCode,
           radios, radioIndex, blockResult, multiLogin, logoutFound, swallowed >>

inputs == << args, verbose, env, isCgi, config >>
locals == << action, router_ip, username, password >>
getVars == << x, getCalls, failedWaits, getSleeps >>
wfplVars == << count, sleeps >>
errFiles == << failPng, failHtml >>
blockVars == << radios, radioIndex, blockResult >>
loginVars == << multiLogin, logoutFound >>

----------------------------------------------------------------------------
(* Bounds of the model *)

MaxPairs == 2      \* parameters in a query string
MaxRadios == 2     \* 'skeyword' radios on the block page
MaxSleeps == 24    \* cap on the sleeps recorded for one wait_for_page_load
MaxGetCalls == 8   \* cap on the browser.get calls recorded for one get()

(* Program constants *)

GetRetries == 5     \* get 220: range(0, 5)
MinPageSize == 30   \* wait_for_page_load 288
MaxCount == 20      \* wait_for_page_load 289

----------------------------------------------------------------------------
(* Python values: None, False, str and list of str *)

None == [t |-> "none", s |-> << >>]
PyFalse == [t |-> "bool", s |-> << >>]
Unassigned == [t |-> "unassigned", s |-> << >>]
Str(c) == [t |-> "str", s |-> << c >>]
List(cs) == [t |-> "list", s |-> cs]

Truthy(v) ==
    CASE v.t = "str" -> v.s[1] # ""
      [] v.t = "list" -> v.s # << >>
      [] OTHER -> FALSE

ACTION_REBOOT == Str("reboot")
ACTION_BLOCK == Str("block")
ACTION_UNBLOCK == Str("unblock")

Names == {"action", "router_ip", "username", "password"}

----------------------------------------------------------------------------
(* getConfigValue *)

\* parse_qs(qs)[name]: the values of the parameters called name, in order;
\* parameters with a blank value are dropped (keep_blank_values=False)
RECURSIVE QsValues(_, _)
QsValues(pairs, name) ==
    IF pairs = << >> THEN << >>
    ELSE LET p == Head(pairs)
             rest == QsValues(Tail(pairs), name)
         IN IF p[1] = name /\ p[2] # "" THEN << p[2] >> \o rest ELSE rest

\* name in dict(parse_qs(qs))
InParams(pairs, name) == QsValues(pairs, name) # << >>

\* name in config; a missing key is stored as Absent
Absent == [t |-> "absent", s |-> << >>]
InConfig(cfg, name) == cfg[name] # Absent

\* a mutant of getConfigValue: the query string is consulted before the
\* command line
GetConfigValueQsFirst(a, e, cfg, name, default) ==
    IF e.set /\ InParams(e.pairs, name)
    THEN List(QsValues(e.pairs, name))
    ELSE IF Truthy(a[name]) THEN a[name]
    ELSE LET value == IF InConfig(cfg, name) THEN cfg[name] ELSE a[name]
         IN IF Truthy(value) THEN value ELSE default

GetConfigValue(a, e, cfg, name, default) ==
    LET value1 == a[name]
        inQs == e.set /\ InParams(e.pairs, name)
        value2 == IF inQs THEN List(QsValues(e.pairs, name)) ELSE value1
        value3 == IF InConfig(cfg, name) THEN cfg[name] ELSE value2
    IN IF Truthy(value1) THEN value1
       ELSE IF inQs /\ Truthy(value2) THEN value2
       ELSE IF Truthy(value3) THEN value3 ELSE default

\* the default main passes for each name (360-363)
DefaultOf(name) == IF name = "username" THEN Str("admin") ELSE PyFalse

----------------------------------------------------------------------------
(* main: inputs *)

NoQueryString == [set |-> FALSE, pairs |-> << >>]
QueryString(pairs) == [set |-> TRUE, pairs |-> pairs]

RECURSIVE SeqsUpTo(_, _)
SeqsUpTo(S, n) ==
    IF n = 0 THEN {<< >>}
    ELSE LET shorter == SeqsUpTo(S, n - 1)
         IN shorter \cup {Append(q, e) : q \in {r \in shorter : Len(r) = n - 1}, e \in S}

\* -a is restricted by argparse to the three actions; the other options
\* take any string, the empty one included (tried for the password)
ArgValues(name) ==
    IF name = "action" THEN {None, ACTION_REBOOT, ACTION_BLOCK, ACTION_UNBLOCK}
    ELSE IF name = "password" THEN {None, Str(""), Str("cli")}
    ELSE {None, Str("cli")}


QsNames == {"action", "username", "password"}
QsPairs == {<< n, v >> : n \in QsNames, v \in {"", "qs"}}
ConfigValues(name) ==
    IF name = "action" THEN {Absent, Str(""), ACTION_UNBLOCK}
    ELSE {Absent, Str(""), Str("cfg")}

\* every combination of the three sources, for the resolution of the values
WideInputs ==
    /\ args \in {a \in [Names -> UNION {ArgValues(n) : n \in Names}] :
                    \A n \in Names : a[n] \in ArgValues(n)}
    /\ verbose = 0
    /\ env \in {NoQueryString} \cup {QueryString(q) : q \in SeqsUpTo(QsPairs, MaxPairs)}
    /\ isCgi = env.set
    /\ config \in {c \in [Names -> UNION {ConfigValues(n) : n \in Names}] :
                      \A n \in Names : c[n] \in ConfigValues(n)}

\* the inputs of the runs that go on to drive the browser
RunArgs ==
    {[action |-> a, router_ip |-> ip, username |-> None, password |-> p] :
        a \in ArgValues("action"), ip \in {None, Str("cli")}, p \in {None, Str("cli")}}
RunEnvs == {NoQueryString, QueryString(<< << "action", "reboot" >> >>)}
RunConfigs ==
    {[action |-> Absent, router_ip |-> Absent, username |-> Str(""), password |-> Absent],
     [action |-> ACTION_BLOCK, router_ip |-> Str("cfg"), username |-> Str("cfg"), password |-> Str("cfg")]}

\* a CGI invocation sets GATEWAY_INTERFACE and QUERY_STRING together; when
\* config.json holds the credentials the command line leaves them to it
RunInputs ==
    /\ args \in RunArgs
    /\ verbose \in {0, 1}
    /\ env \in RunEnvs
    /\ isCgi = env.set
    /\ config \in RunConfigs
    /\ InConfig(config, "router_ip") => (args["router_ip"] = None /\ args["password"] = None)

\* the state before main() has run
Start ==
    /\ action = Unassigned /\ router_ip = Unassigned
    /\ username = Unassigned /\ password = Unassigned
    /\ selfAction = Unassigned
    /\ screenshot = FALSE /\ screenshotNum = 1
    /\ browser = "none"
    /\ pc = "main" /\ ret = "none"
    /\ x = 0 /\ getCalls = 0 /\ failedWaits = 0 /\ getSleeps = 0
    /\ count = 0 /\ sleeps = 0
    /\ loginResult = "unknown" /\ multiLogin = "unknown"
    /\ logoutFound = "unknown" /\ swallowed = "none"
    /\ requested = {} /\ loadedPages = {}
    /\ clicked = << >> /\ alertAccepted = FALSE
    /\ radios = << >> /\ radioIndex = 0 /\ blockResult = "none"
    /\ quitCount = 0
    /\ exc = "none" /\ handlerRan = FALSE
    /\ pageFail = "none" /\ failPng = FALSE /\ failHtml = FALSE
    /\ critical = {} /\ header = FALSE
    /\ exitCode = -1

Init == RunInputs /\ Start
InitConfig == WideInputs /\ Start

----------------------------------------------------------------------------
(* main *)

MSG_REQUIRED == "ERROR: you need to specify router IP, username and password"
MSG_ACTION == "ERROR: you need to specify at least one action to perform"
MSG_LOGIN == "Login failed"

\* main 360-363
MainGetConfig ==
    /\ pc = "main"
    /\ action' = GetConfigValue(args, env, config, "action", DefaultOf("action"))
    /\ router_ip' = GetConfigValue(args, env, config, "router_ip", DefaultOf("router_ip"))
    /\ username' = GetConfigValue(args, env, config, "username", DefaultOf("username"))
    /\ password' = GetConfigValue(args, env, config, "password", DefaultOf("password"))
    /\ pc' = "validate"
    /\ UNCHANGED << inputs, loadedPages, blockVars, loginVars, swallowed, selfAction, screenshot, screenshotNum, browser, ret,
                    getVars, wfplVars, loginResult, requested, clicked,
                    alertAccepted, quitCount, exc, handlerRan, pageFail,
                    errFiles, critical, header, exitCode >>

\* a mutant of the check of line 366: the password is not required
RequiredGivenNoPassword(ip, user, pw) == Truthy(ip) /\ Truthy(user)

\* main 366: not (not router_ip or not username or not password)
RequiredGiven(ip, user, pw) == Truthy(ip) /\ Truthy(user) /\ Truthy(pw)

\* main 380: action=args.action
HandedAction(a, resolved) == a["action"]

\* main 366-384: validation, then construction of the NetgearAdmin (69-91)
MainValidate ==
    /\ pc = "validate"
    /\ IF ~RequiredGiven(router_ip, username, password)
       THEN /\ critical' = critical \cup {MSG_REQUIRED}
            /\ exc' = "SystemExit" /\ exitCode' = 1 /\ pc' = "exited"
            /\ UNCHANGED << selfAction, screenshot >>
       ELSE IF ~Truthy(action)
       THEN /\ critical' = critical \cup {MSG_ACTION}
            /\ exc' = "SystemExit" /\ exitCode' = 1 /\ pc' = "exited"
            /\ UNCHANGED << selfAction, screenshot >>
       ELSE /\ selfAction' = HandedAction(args, action)
            /\ screenshot' = (verbose > 0)
            /\ pc' = "get_browser"
            /\ UNCHANGED << critical, exc, exitCode >>
    /\ UNCHANGED << inputs, loadedPages, blockVars, loginVars, swallowed, locals, screenshotNum, browser, ret, getVars,
                    wfplVars, loginResult, requested, clicked, alertAccepted,
                    quitCount, handlerRan, pageFail, errFiles, header >>

----------------------------------------------------------------------------
(* NetgearAdmin: helpers *)

PageLens == {0, 29, 30}
RadioValues == {"never", "perschedule", "always"}
Pages == {"start", "home", "block"}

\* do_screenshot 182-196
DoScreenshot(num) == IF screenshot THEN num + 1 ELSE num

\* browser.quit()
Quit == browser' = "quit" /\ quitCount' = quitCount + 1

\* an exception leaves the current function: inside the first try block of
\* check_login the bare except swallows it (147-149), anywhere else in run()
\* it reaches the except clause of line 118
InCheckLoginTry == ret = "check_login"
Raise(e) ==
    IF InCheckLoginTry
    THEN pc' = "check_logout" /\ swallowed' = e /\ UNCHANGED exc
    ELSE pc' = "handler" /\ exc' = e /\ UNCHANGED swallowed

\* error_screenshot 198-210: the screenshot is saved, then codecs.open fails
\* with a NameError because codecs is never imported; webdriver_fail.html is
\* not written and the caller's raise is not reached
ErrorScreenshot(e) ==
    /\ failPng' = TRUE
    /\ UNCHANGED failHtml
    /\ Raise("NameError")

\* get 214-219: the page is requested once before the retry loop
Get(page) ==
    /\ requested' = requested \cup {page}
    /\ ret' = page
    /\ getCalls' = 1 /\ x' = 0 /\ failedWaits' = 0 /\ getSleeps' = 0
    /\ pc' = "get_wait"

----------------------------------------------------------------------------
(* NetgearAdmin.run and what it calls *)

\* run 98, get_browser 234-271: the driver starts or raises
RunGetBrowser ==
    /\ pc = "get_browser"
    /\ \/ browser' = "open" /\ pc' = "get_start_page" /\ UNCHANGED exc
       \/ browser' = "none" /\ pc' = "handler" /\ exc' = "WebDriverException"
    /\ UNCHANGED << inputs, loadedPages, blockVars, loginVars, swallowed, locals, selfAction, screenshot, screenshotNum, ret,
                    getVars, wfplVars, loginResult, requested, clicked,
                    alertAccepted, quitCount, handlerRan, pageFail, errFiles,
                    critical, header, exitCode >>

\* run 99, get_start_page 123-124
GetStartPage ==
    /\ pc = "get_start_page"
    /\ Get("start")
    /\ UNCHANGED << inputs, loadedPages, blockVars, loginVars, swallowed, locals, selfAction, screenshot, screenshotNum,
                    browser, wfplVars, loginResult, clicked, alertAccepted,
                    quitCount, exc, handlerRan, pageFail, errFiles, critical,
                    header, exitCode >>

\* get 220: for x in range(0, 5)
NextX(i) == i + 1

\* get 220-229: one iteration of the retry loop
GetWait ==
    /\ pc = "get_wait"
    /\ x < GetRetries
    /\ \/ /\ pc' = "wfpl_ajax"
          /\ UNCHANGED getVars
       \/ /\ getCalls < MaxGetCalls
          /\ failedWaits' = failedWaits + 1
          /\ getCalls' = getCalls + 1
          /\ getSleeps' = getSleeps + 1
          /\ x' = NextX(x)
          /\ pc' = "get_wait"
    /\ UNCHANGED << inputs, loadedPages, blockVars, loginVars, swallowed, locals, selfAction, screenshot, screenshotNum,
                    browser, ret, wfplVars, loginResult, requested, clicked,
                    alertAccepted, quitCount, exc, handlerRan, pageFail,
                    errFiles, critical, header, exitCode >>

\* get 230-232: the else clause of the loop
GetGiveUp ==
    /\ pc = "get_wait"
    /\ ~(x < GetRetries)
    /\ pageFail' = "get"
    /\ ErrorScreenshot("RuntimeError")
    /\ UNCHANGED << inputs, loadedPages, blockVars, loginVars, locals, selfAction, screenshot, screenshotNum,
                    browser, ret, getVars, wfplVars, loginResult, requested,
                    clicked, alertAccepted, quitCount, handlerRan, critical,
                    header, exitCode >>

\* wait_for_page_load 286-287, wait_for_ajax_load 298-310
WfplAjax ==
    /\ pc = "wfpl_ajax"
    /\ \/ pc' = "wfpl_test" /\ count' = 0 /\ sleeps' = 0 /\ UNCHANGED << exc, swallowed >>
       \/ Raise("TimeoutException") /\ UNCHANGED wfplVars
    /\ UNCHANGED << inputs, loadedPages, blockVars, loginVars, locals, selfAction, screenshot, screenshotNum,
                    browser, ret, getVars, loginResult, requested, clicked,
                    alertAccepted, quitCount, handlerRan, pageFail, errFiles,
                    critical, header, exitCode >>

\* a mutant of line 289: the loop never gives up
GivesUpNever(c) == FALSE

\* wait_for_page_load 289: if count > 20
GivesUp(c) == c > MaxCount

\* wait_for_page_load 288-292: the loop test and the give-up branch
WfplTest ==
    /\ pc = "wfpl_test"
    /\ \E len \in PageLens :
          IF len < MinPageSize
          THEN IF GivesUp(count)
               THEN pageFail' = "wfpl" /\ ErrorScreenshot("RuntimeError")
               ELSE pc' = "wfpl_sleep" /\ UNCHANGED << pageFail, errFiles, exc, swallowed >>
          ELSE pc' = "loaded" /\ UNCHANGED << pageFail, errFiles, exc, swallowed >>
    /\ UNCHANGED << inputs, loadedPages, blockVars, loginVars, locals, selfAction, screenshot, screenshotNum,
                    browser, ret, getVars, wfplVars, loginResult, requested,
                    clicked, alertAccepted, quitCount, handlerRan, critical,
                    header, exitCode >>

\* wait_for_page_load 293-296: the rest of the loop body
WfplSleep ==
    /\ pc = "wfpl_sleep"
    /\ sleeps < MaxSleeps
    /\ count' = count + 1
    /\ sleeps' = sleeps + 1
    /\ pc' = "wfpl_test"
    /\ UNCHANGED << inputs, loadedPages, blockVars, loginVars, swallowed, locals, selfAction, screenshot, screenshotNum,
                    browser, ret, getVars, loginResult, requested, clicked,
                    alertAccepted, quitCount, exc, handlerRan, pageFail,
                    errFiles, critical, header, exitCode >>

\* get_start_page 126, get_home_page 131, get_block_page 136, and the
\* return to run()
PageLoaded ==
    /\ pc = "loaded"
    /\ ret \in Pages
    /\ screenshotNum' = DoScreenshot(screenshotNum)
    /\ loadedPages' = loadedPages \cup {ret}
    /\ pc' = CASE ret = "start" -> "check_login"
              [] ret = "home" -> "reboot"
              [] ret = "block" -> "block_services"
    /\ UNCHANGED << inputs, blockVars, loginVars, swallowed, locals, selfAction, screenshot, browser, ret,
                    getVars, wfplVars, loginResult, requested, clicked,
                    alertAccepted, quitCount, exc, handlerRan, pageFail,
                    errFiles, critical, header, exitCode >>

\* check_login 141-149: the multi-login warning; a failed lookup of the form
\* or of 'yes' is caught by the bare except
CheckLogin ==
    /\ pc = "check_login"
    /\ \E form \in BOOLEAN, yes \in BOOLEAN :
          IF form /\ yes
          THEN /\ clicked' = Append(clicked, "yes")
               /\ multiLogin' = "clicked"
               /\ ret' = "check_login"
               /\ pc' = "wfpl_ajax"
               /\ UNCHANGED swallowed
          ELSE /\ multiLogin' = (IF form THEN "no_yes" ELSE "no_form")
               /\ swallowed' = "NoSuchElementException"
               /\ pc' = "check_logout"
               /\ UNCHANGED << clicked, ret >>
    /\ UNCHANGED << inputs, loadedPages, blockVars, logoutFound, locals, selfAction,
                    screenshot, screenshotNum,
                    browser, getVars, wfplVars, loginResult, requested,
                    alertAccepted, quitCount, exc, handlerRan, pageFail,
                    errFiles, critical, header, exitCode >>

\* check_login 146: the page after the warning has loaded
MultiLoginLoaded ==
    /\ pc = "loaded"
    /\ ret = "check_login"
    /\ screenshotNum' = DoScreenshot(screenshotNum)
    /\ multiLogin' = "loaded"
    /\ pc' = "check_logout"
    /\ UNCHANGED << inputs, loadedPages, blockVars, logoutFound, swallowed, locals, selfAction, screenshot, browser, ret,
                    getVars, wfplVars, loginResult, requested, clicked,
                    alertAccepted, quitCount, exc, handlerRan, pageFail,
                    errFiles, critical, header, exitCode >>

\* a mutant of lines 152-157: True whatever the lookup finds
LoginReturnTrue(found) == "true"

\* check_login 152-157: True if 'logout' is found, False if the lookup raises
LoginReturn(found) == IF found THEN "true" ELSE "false"

\* check_login 151-157: the lookup of 'logout'
CheckLogout ==
    /\ pc = "check_logout"
    /\ \E logout \in BOOLEAN :
          /\ logoutFound' = (IF logout THEN "yes" ELSE "no")
          /\ loginResult' = LoginReturn(logout)
    /\ ret' = "run"
    /\ pc' = "run_login"
    /\ UNCHANGED << inputs, loadedPages, blockVars, multiLogin, swallowed, locals,
                    selfAction, screenshot, screenshotNum,
                    browser, getVars, wfplVars, requested, clicked,
                    alertAccepted, quitCount, exc, handlerRan, pageFail,
                    errFiles, critical, header, exitCode >>

\* a mutant of line 100: the result of check_login is ignored
LoginFailedNever(result) == FALSE

\* run 100: if not self.check_login()
LoginFailed(result) == result = "false"

\* run 100-103: login not confirmed; exit(1) raises SystemExit
RunLoginFailed ==
    /\ pc = "run_login"
    /\ LoginFailed(loginResult)
    /\ critical' = critical \cup {MSG_LOGIN}
    /\ Quit
    /\ exc' = "SystemExit"
    /\ pc' = "handler"
    /\ UNCHANGED << inputs, loadedPages, blockVars, loginVars, swallowed, locals, selfAction, screenshot, screenshotNum, ret,
                    getVars, wfplVars, loginResult, requested, clicked,
                    alertAccepted, handlerRan, pageFail, errFiles, header,
                    exitCode >>

\* a mutant of line 106: the reboot branch is taken for 'block' as well
IsRebootActionOrBlock(a) == a = ACTION_REBOOT \/ a = ACTION_BLOCK

\* run 106: if self.action == ACTION_REBOOT
IsRebootAction(a) == a = ACTION_REBOOT

\* run 111: if self.action == ACTION_BLOCK or self.action == ACTION_UNBLOCK
IsBlockAction(a) == a = ACTION_BLOCK \/ a = ACTION_UNBLOCK

\* run 105-107: the reboot branch, up to the call of get() in get_home_page
\* (128-129)
RunAction ==
    /\ pc = "run_login"
    /\ ~LoginFailed(loginResult)
    /\ IF IsRebootAction(selfAction)
       THEN Get("home")
       ELSE pc' = "run_block" /\ UNCHANGED << requested, ret, getVars >>
    /\ UNCHANGED << inputs, loadedPages, blockVars, loginVars, swallowed, locals,
                    selfAction, screenshot, screenshotNum, browser, quitCount,
                    wfplVars, loginResult, clicked, alertAccepted, exc,
                    handlerRan, pageFail, errFiles, critical, header, exitCode >>

\* run 110-112: the block/unblock branch, up to the call of get() in
\* get_block_page (133-134)
RunBlock ==
    /\ pc = "run_block"
    /\ IF IsBlockAction(selfAction)
       THEN Get("block")
       ELSE pc' = "run_quit" /\ UNCHANGED << requested, ret, getVars >>
    /\ UNCHANGED << inputs, loadedPages, blockVars, loginVars, swallowed, locals,
                    selfAction, screenshot, screenshotNum, browser, quitCount,
                    wfplVars, loginResult, clicked, alertAccepted, exc,
                    handlerRan, pageFail, errFiles, critical, header, exitCode >>

\* reboot 159-163, then back in run() at line 110
Reboot ==
    /\ pc = "reboot"
    /\ \E found \in BOOLEAN, alert \in BOOLEAN :
          IF ~found
          THEN /\ Raise("NoSuchElementException")
               /\ UNCHANGED << clicked, alertAccepted >>
          ELSE /\ clicked' = Append(clicked, "reboot")
               /\ IF alert
                  THEN alertAccepted' = TRUE /\ pc' = "run_block" /\ UNCHANGED << exc, swallowed >>
                  ELSE Raise("NoAlertPresentException") /\ UNCHANGED alertAccepted
    /\ UNCHANGED << inputs, loadedPages, blockVars, loginVars, locals, selfAction, screenshot, screenshotNum,
                    browser, ret, getVars, wfplVars, loginResult, requested,
                    quitCount, handlerRan, pageFail, errFiles, critical, header,
                    exitCode >>

\* a mutant of line 170: either option is taken for either value
MatchesEither(value, attr) == attr = "perschedule" \/ attr = "never"

\* block_services 170: the radio that goes with value
Matches(value, attr) ==
    (value /\ attr = "perschedule") \/ (~value /\ attr = "never")

\* block_services 168-170: index of the first matching radio, 0 if none
FirstMatch(rs, value) ==
    IF \E i \in 1..Len(rs) : Matches(value, rs[i])
    THEN CHOOSE i \in 1..Len(rs) :
            /\ Matches(value, rs[i])
            /\ \A j \in 1..(i - 1) : ~Matches(value, rs[j])
    ELSE 0

\* block_services 165-177, called from run 113 with action == ACTION_BLOCK
BlockServices ==
    /\ pc = "block_services"
    /\ \E apply \in BOOLEAN, found \in SeqsUpTo(RadioValues, MaxRadios) :
          LET value == (selfAction = ACTION_BLOCK)
              i == FirstMatch(found, value)
          IN IF ~apply
             THEN /\ Raise("NoSuchElementException")
                  /\ radios' = found
                  /\ blockResult' = "raised"
                  /\ UNCHANGED << clicked, screenshotNum, ret, radioIndex >>
             ELSE /\ radios' = found
                  /\ radioIndex' = i
                  /\ IF i = 0
                     THEN /\ pc' = "run_quit"
                          /\ blockResult' = "false"
                          /\ UNCHANGED << clicked, screenshotNum, ret, exc, swallowed >>
                     ELSE /\ clicked' = clicked \o << found[i], "apply" >>
                          /\ screenshotNum' = DoScreenshot(screenshotNum)
                          /\ ret' = "block_services"
                          /\ pc' = "wfpl_ajax"
                          /\ blockResult' = "waiting"
                          /\ UNCHANGED << exc, swallowed >>
    /\ UNCHANGED << inputs, loadedPages, loginVars, locals, selfAction, screenshot, browser, getVars,
                    wfplVars, loginResult, requested, alertAccepted, quitCount,
                    handlerRan, pageFail, errFiles, critical, header, exitCode >>

\* block_services 178-179: the page after 'apply' has loaded; return True
BlockServicesLoaded ==
    /\ pc = "loaded"
    /\ ret = "block_services"
    /\ screenshotNum' = DoScreenshot(screenshotNum)
    /\ blockResult' = "true"
    /\ pc' = "run_quit"
    /\ UNCHANGED << inputs, loadedPages, radios, radioIndex, loginVars, swallowed, locals, selfAction,
                    screenshot, browser, ret,
                    getVars, wfplVars, loginResult, requested, clicked,
                    alertAccepted, quitCount, exc, handlerRan, pageFail,
                    errFiles, critical, header, exitCode >>

\* run 115-116
RunQuit ==
    /\ pc = "run_quit"
    /\ Quit
    /\ pc' = "main_tail"
    /\ UNCHANGED << inputs, loadedPages, blockVars, loginVars, swallowed, locals, selfAction, screenshot, screenshotNum, ret,
                    getVars, wfplVars, loginResult, requested, clicked,
                    alertAccepted, exc, handlerRan, pageFail, errFiles,
                    critical, header, exitCode >>

\* a mutant of line 118: a bare except, which also catches SystemExit
HandlerCatchesAll(e) == TRUE

\* run 118: except Exception; SystemExit derives from BaseException only
HandlerCatches(e) == e # "SystemExit"

\* a mutant of line 119: the handler leaves the browser open
HandlerQuitsNever(b) == FALSE

\* run 119: if self.browser is not None
HandlerQuits(b) == b # "none"

\* run 118-121, then the exception ends main() and the process
RunHandler ==
    /\ pc = "handler"
    /\ IF HandlerCatches(exc)
       THEN /\ handlerRan' = TRUE
            /\ IF HandlerQuits(browser) THEN Quit ELSE UNCHANGED << browser, quitCount >>
       ELSE UNCHANGED << handlerRan, browser, quitCount >>
    /\ exitCode' = 1
    /\ pc' = "exited"
    /\ UNCHANGED << inputs, loadedPages, blockVars, loginVars, swallowed, locals, selfAction, screenshot, screenshotNum, ret,
                    getVars, wfplVars, loginResult, requested, clicked,
                    alertAccepted, exc, pageFail, errFiles, critical, header >>

\* a mutant of line 387: the header is printed outside CGI too
PrintsHeaderAlways(cgi) == TRUE

\* main 387: if isCgi
PrintsHeader(cgi) == cgi

\* main 386-390, then the normal end of the process
MainTail ==
    /\ pc = "main_tail"
    /\ header' = PrintsHeader(isCgi)
    /\ exitCode' = 0
    /\ pc' = "exited"
    /\ UNCHANGED << inputs, loadedPages, blockVars, loginVars, swallowed, locals, selfAction, screenshot, screenshotNum,
                    browser, ret, getVars, wfplVars, loginResult, requested,
                    clicked, alertAccepted, quitCount, exc, handlerRan,
                    pageFail, errFiles, critical >>

----------------------------------------------------------------------------
(* Specifications *)

Next ==
    \/ MainGetConfig \/ MainValidate
    \/ RunGetBrowser \/ GetStartPage
    \/ GetWait \/ GetGiveUp
    \/ WfplAjax \/ WfplTest \/ WfplSleep
    \/ PageLoaded
    \/ CheckLogin \/ MultiLoginLoaded \/ CheckLogout
    \/ RunLoginFailed \/ RunAction \/ RunBlock
    \/ Reboot \/ BlockServices \/ BlockServicesLoaded
    \/ RunQuit \/ RunHandler \/ MainTail

\* the whole program, on the inputs RunInputs
Spec == Init /\ [][Next]_vars

\* the interpreter always executes the next statement
FairSpec == Spec /\ WF_vars(Next)

\* main up to the end of its validation, on the inputs WideInputs
NextConfig == MainGetConfig \/ MainValidate
SpecConfig == InitConfig /\ [][NextConfig]_vars

TypeOK ==
    /\ pc \in {"main", "validate", "get_browser", "get_start_page", "get_wait",
               "wfpl_ajax", "wfpl_test", "wfpl_sleep", "loaded", "check_login",
               "check_logout", "run_login", "run_block", "reboot", "block_services",
               "run_quit", "handler", "main_tail", "exited"}
    /\ browser \in {"none", "open", "quit"}
    /\ requested \subseteq Pages
    /\ exitCode \in {-1, 0, 1}

----------------------------------------------------------------------------
(* Properties *)

Exited == pc = "exited"
Local(n) ==
    CASE n = "action" -> action
      [] n = "router_ip" -> router_ip
      [] n = "username" -> username
      [] n = "password" -> password
Elems(q) == {q[i] : i \in 1..Len(q)}
ActionElements == {"reboot", "apply"} \cup RadioValues
ActionPages == {"home", "block"}

\* the query string has a non-blank parameter called n
QsSupplies(n) ==
    env.set /\ \E i \in 1..Len(env.pairs) : env.pairs[i][1] = n /\ env.pairs[i][2] # ""

C2_ActionIsResolved ==
    /\ loginResult = "true" => selfAction = action
    /\ (Exited /\ exitCode = 0) => Cardinality(requested \cap ActionPages) = 1

\* C3: when check_login returns False the run logs 'Login failed', quits the
\* browser once, exits with status 1 through a SystemExit that run()'s
\* handler does not catch, requests no action page and clicks no action
\* element
C3_LoginFailure ==
    loginResult = "false" =>
        /\ pc \in {"run_login", "handler", "exited"}
        /\ requested = {"start"}
        /\ Elems(clicked) \cap ActionElements = {}
        /\ ~alertAccepted
        /\ pc # "run_login" =>
              /\ MSG_LOGIN \in critical
              /\ browser = "quit" /\ quitCount = 1
              /\ exc = "SystemExit"
              /\ ~handlerRan
        /\ Exited => exitCode = 1

C3_Witness ==
    /\ Exited /\ loginResult = "false"
    /\ exitCode = 1 /\ quitCount = 1 /\ MSG_LOGIN \in critical

\* C4: a run that gave up on a page load ends with a non-zero status, a
\* critical log entry and the RuntimeError of the page load, raised after
\* error_screenshot has written its files
C4_PageLoadFailure ==
    (Exited /\ pageFail # "none") =>
        /\ exitCode # 0
        /\ critical # {}
        /\ exc = "RuntimeError"
        /\ failPng /\ failHtml

\* C5: the loops of get and wait_for_page_load stay within their budgets and
\* every run ends
C5_Termination ==
    /\ [](x <= GetRetries /\ count <= MaxCount + 1)
    /\ <>Exited

\* a run that ended after a retried get and a page that was too small at first
C5_Witness == Exited /\ failedWaits > 0 /\ sleeps > 0

\* C6: a run that ends with status 0 has clicked what its action asks for:
\* the 'perschedule' (block) or 'never' (unblock) radio and then 'apply', or
\* 'reboot' followed by the acceptance of the alert
C6_SuccessMeansApplied ==
    (Exited /\ exitCode = 0) =>
        /\ selfAction = ACTION_BLOCK =>
              \E i \in 1..Len(clicked) - 1 :
                  clicked[i] = "perschedule" /\ clicked[i + 1] = "apply"
        /\ selfAction = ACTION_UNBLOCK =>
              \E i \in 1..Len(clicked) - 1 :
                  clicked[i] = "never" /\ clicked[i + 1] = "apply"
        /\ selfAction = ACTION_REBOOT => ("reboot" \in Elems(clicked) /\ alertAccepted)

AllGiven == Truthy(router_ip) /\ Truthy(username) /\ Truthy(password) /\ Truthy(action)

C8_FixedOrder ==
    /\ [](/\ requested # {} => browser # "none"
          /\ loadedPages \subseteq requested
          /\ (pc \in {"check_login", "check_logout"} \/ loginResult # "unknown") =>
                "start" \in loadedPages
          /\ pc \in {"check_login", "check_logout"} => requested = {"start"}
          /\ (requested \cap ActionPages # {} \/ Elems(clicked) \cap ActionElements # {}
                \/ alertAccepted) => loginResult = "true"
          /\ "reboot" \in Elems(clicked) => "home" \in loadedPages
          /\ Elems(clicked) \cap ({"apply"} \cup RadioValues) # {} => "block" \in loadedPages
          /\ browser = "quit" => pc \in {"handler", "main_tail", "exited"})
    /\ [][browser = "quit" =>
            /\ requested' = requested /\ loadedPages' = loadedPages
            /\ clicked' = clicked /\ alertAccepted' = alertAccepted]_vars

\* a complete unblock run that went through the multi-login warning
C8_Witness ==
    /\ Exited /\ exitCode = 0 /\ browser = "quit"
    /\ requested = {"start", "block"}
    /\ clicked = << "yes", "never", "apply" >>

\* C9: get() issues one browser.get plus one per failed wait, at most 6, sleeps
\* once per failed wait, and after 5 failed waits raises RuntimeError
C9_GetRetryBudget ==
    /\ getCalls = (IF requested = {} THEN 0 ELSE 1 + failedWaits)
    /\ getSleeps = failedWaits
    /\ getCalls <= GetRetries + 1
    /\ (pageFail = "get" /\ pc \in {"handler", "exited"}) =>
          (failedWaits = GetRetries /\ exc = "RuntimeError")

\* C10: wait_for_page_load gives up with RuntimeError after exactly 20 sleeps
C10_TwentySleeps ==
    (pageFail = "wfpl" /\ count > MaxCount) => (sleeps = 20 /\ (pc = "handler" => exc = "RuntimeError"))

\* what block_services is asked to select, and what it clicked
Wanted == IF selfAction = ACTION_BLOCK THEN "perschedule" ELSE "never"
HasWanted == \E i \in 1..Len(radios) : radios[i] = Wanted
IsFirstWanted(i) ==
    /\ i \in 1..Len(radios) /\ radios[i] = Wanted
    /\ \A j \in 1..(i - 1) : radios[j] # Wanted
BlockClicks == SelectSeq(clicked, LAMBDA e : e \in ActionElements)

\* C11 as stated: once block_services has run on a page, if a radio has the
\* wanted value the first such radio and then 'apply' are the clicks and the
\* call returns True after its wait; otherwise nothing is clicked and it
\* returns False
C11_AsStated ==
    blockResult # "none" =>
        IF HasWanted
        THEN /\ IsFirstWanted(radioIndex)
             /\ BlockClicks = << Wanted, "apply" >>
             /\ blockResult \in {"waiting", "true"}
             /\ Exited => blockResult = "true"
        ELSE /\ BlockClicks = << >>
             /\ blockResult = "false"

\* C11 (amended): if 'apply' is not found block_services raises before any
\* click; otherwise, if a radio has the wanted value, the first such radio
\* and then 'apply' are the only clicks, and the call returns True once its
\* wait has succeeded, while a failed wait ends the run with an error after
\* both clicks; if no radio has the wanted value nothing is clicked and it
\* returns False
C11_BlockServices ==
    blockResult # "none" =>
        /\ blockResult = "raised" =>
              /\ BlockClicks = << >>
              /\ pc \in {"handler", "exited"} /\ exc = "NoSuchElementException"
        /\ blockResult # "raised" =>
              IF HasWanted
              THEN /\ IsFirstWanted(radioIndex)
                   /\ BlockClicks = << Wanted, "apply" >>
                   /\ blockResult \in {"waiting", "true"}
                   /\ blockResult = "true" => pc \in {"run_quit", "main_tail", "exited"}
                   /\ (blockResult = "waiting" /\ Exited) => exitCode = 1
              ELSE /\ BlockClicks = << >>
                   /\ radioIndex = 0
                   /\ blockResult = "false"

\* a block run that skipped a 'never' radio and clicked the second radio
C11_Witness ==
    /\ Exited /\ blockResult = "true" /\ selfAction = ACTION_BLOCK
    /\ radios = << "never", "perschedule" >> /\ radioIndex = 2

Occurrences(q, e) == Len(SelectSeq(q, LAMBDA c : c = e))

\* C12: check_login returns True exactly when 'logout' was found; 'yes' is
\* clicked once when the warning form and the button are there and never
\* otherwise; the lookup of 'logout' comes after the wait for the page has
\* ended, by success or by a caught failure; and an exception caught in the
\* multi-login handling leads to the lookup of 'logout' and is not raised
C12_CheckLogin ==
    /\ [](/\ loginResult # "unknown" => (loginResult = "true" <=> logoutFound = "yes")
          /\ logoutFound # "unknown" => loginResult # "unknown"
          /\ Occurrences(clicked, "yes") =
                (IF multiLogin \in {"clicked", "loaded"} THEN 1 ELSE 0)
          /\ (multiLogin = "clicked" /\ logoutFound # "unknown") =>
                swallowed \in {"TimeoutException", "NameError"}
          /\ multiLogin = "loaded" => swallowed = "none"
          /\ multiLogin \in {"no_form", "no_yes"} => swallowed = "NoSuchElementException"
          /\ (swallowed # "none" /\ logoutFound = "unknown") =>
                (pc = "check_logout" /\ exc = "none"))
    /\ [][swallowed' # swallowed => (pc' = "check_logout" /\ exc' = exc)]_vars

\* the wait after 'yes' gave up and check_login still returned True
C12_Witness ==
    /\ loginResult = "true" /\ logoutFound = "yes"
    /\ multiLogin = "clicked" /\ swallowed = "NameError"
    /\ clicked = << "yes" >>

\* C13: quit is called at most once and never without a browser; a run that
\* got a browser ends with exactly one quit, on success, on login failure
\* and on an exception alike; a run whose get_browser failed ends without
\* one; and after quit the browser is not used again
C13_BrowserReleased ==
    /\ [](/\ quitCount <= 1
          /\ (browser = "quit") <=> (quitCount = 1)
          /\ (Exited /\ browser # "none") => (browser = "quit" /\ quitCount = 1)
          /\ (Exited /\ exc = "WebDriverException") => (browser = "none" /\ quitCount = 0))
    /\ [][browser = "quit" =>
            /\ browser' = browser /\ quitCount' = quitCount
            /\ requested' = requested /\ loadedPages' = loadedPages
            /\ getCalls' = getCalls /\ clicked' = clicked
            /\ alertAccepted' = alertAccepted
            /\ screenshotNum' = screenshotNum /\ failPng' = failPng]_vars

\* a reboot run that failed on the missing alert and was cleaned up by the
\* handler
C13_Witness ==
    /\ Exited /\ handlerRan /\ exc = "NoAlertPresentException"
    /\ clicked = << "reboot" >> /\ browser = "quit" /\ quitCount = 1

RebootRun == selfAction = ACTION_REBOOT \/ action \in {ACTION_REBOOT, List(<< "reboot" >>)}
BlockRun ==
    \/ selfAction \in {ACTION_BLOCK, ACTION_UNBLOCK}
    \/ action \in {ACTION_BLOCK, ACTION_UNBLOCK, List(<< "block" >>), List(<< "unblock" >>)}

\* C14: a reboot run requests no page but start and home, clicks no radio
\* and no 'apply'; a block or unblock run requests no page but start and
\* block, does not click 'reboot' and accepts no alert
C14_Exclusive ==
    /\ RebootRun =>
          /\ requested \subseteq {"start", "home"}
          /\ Elems(clicked) \cap ({"apply"} \cup RadioValues) = {}
          /\ blockResult = "none"
    /\ BlockRun =>
          /\ requested \subseteq {"start", "block"}
          /\ "reboot" \notin Elems(clicked)
          /\ ~alertAccepted

\* a complete reboot run
C14_Witness ==
    /\ Exited /\ exitCode = 0 /\ selfAction = ACTION_REBOOT
    /\ requested = {"start", "home"} /\ clicked = << "reboot" >> /\ alertAccepted

====
